---- MODULE Spec2Model ----
(***************************************************************************)
(* A model of the Sudoku engine of soduku.c: the board (puzzle, solution), *)
(* the constraint checks, cell_choices, cell_hint, the most-constrained    *)
(* cell search and the backtracking solver, whose recursion is unfolded    *)
(* into an explicit call stack so that every intermediate board of a       *)
(* sudoku_solve call is a state of the model.                              *)
(***************************************************************************)
EXTENDS Integers, Sequences, FiniteSets, TLC

\* ------------------------------------------------------------------------
\* Program constants
\* ------------------------------------------------------------------------
DIM == 9
DIMBOX == 3
EMPTY == 0
SUCCESS == 0
CONSTRAINT_VIOLATED == -1

\* ------------------------------------------------------------------------
\* Bounds of the model
\* ------------------------------------------------------------------------
\* The player's cell_fill / cell_erase calls are explored on the puzzles
\* that have at most MaxBlanks empty clue positions; each scenario below is
\* explored with its first 0..MaxBlanks blanks.
MaxBlanks == 4

Rows == 0 .. DIM - 1
Cols == 0 .. DIM - 1
Digits == 1 .. 9
Cells == 0 .. DIM * DIM - 1

VARIABLES
  puzzle,    \* su->puzzle, indexed row * DIM + col
  solution,  \* su->solution, indexed row * DIM + col
  stack,     \* the activation records of the running sudoku_solve calls
  op,        \* the last interface call and its arguments
  out,       \* what that call returned (ret) and wrote through row / col
  pre        \* *su at the moment that call was made

vars == <<puzzle, solution, stack, op, out, pre>>

\* The board as the functions of soduku.c see it.
Su == [puzzle |-> puzzle, solution |-> solution]

\* A C int used as a condition.
Truthy(x) == x # 0

\* ------------------------------------------------------------------------
\* Helper functions (soduku.c, 40-106)
\* ------------------------------------------------------------------------
violate_row(su, row, num) ==
  IF \E i \in 0 .. DIM - 1 : su.solution[row * DIM + i] = num
  THEN CONSTRAINT_VIOLATED ELSE SUCCESS

violate_col(su, col, num) ==
  IF \E i \in 0 .. DIM - 1 : su.solution[i * DIM + col] = num
  THEN CONSTRAINT_VIOLATED ELSE SUCCESS

violate_box(su, row, col, num) ==
  LET row_box == row \div DIMBOX
      col_box == col \div DIMBOX
      row_pos == row_box * DIMBOX
      col_pos == col_box * DIMBOX
  IN IF \E i \in row_pos .. (row_box + 1) * DIMBOX - 1 :
          \E j \in col_pos .. (col_box + 1) * DIMBOX - 1 :
             su.solution[i * DIM + j] = num
     THEN CONSTRAINT_VIOLATED ELSE SUCCESS

\* The condition cell_fill and cell_choices test before accepting a digit.
violates_any(su, row, col, num) ==
  \/ Truthy(violate_row(su, row, num))
  \/ Truthy(violate_col(su, col, num))
  \/ Truthy(violate_box(su, row, col, num))

\* ------------------------------------------------------------------------
\* Core functions
\* ------------------------------------------------------------------------
\* An int choices[DIM] whose elements have not been written yet, shown as
\* 0, which is no digit; no element is read before cell_choices has
\* written it (SolveTry reads choices[i] for i < least_num only).
FreshChoices == [k \in 0 .. DIM - 1 |-> 0]

solution_reset(su) ==
  [su EXCEPT !.solution = [c \in Cells |-> su.puzzle[c]]]

\* Faulty variant of cell_erase: the clue test is missing.
cell_erase_any(su, row, col) ==
  [ret |-> TRUE,
   su  |-> [su EXCEPT !.solution[row * DIM + col] = EMPTY]]

\* Faulty variant of cell_erase: an already empty cell is reported as a failure.
cell_erase_strict(su, row, col) ==
  IF su.puzzle[row * DIM + col] # EMPTY
     \/ su.solution[row * DIM + col] = EMPTY
  THEN [ret |-> FALSE, su |-> su]
  ELSE [ret |-> TRUE,
        su  |-> [su EXCEPT !.solution[row * DIM + col] = EMPTY]]

cell_erase(su, row, col) ==
  IF su.puzzle[row * DIM + col] # EMPTY
  THEN [ret |-> FALSE, su |-> su]
  ELSE [ret |-> TRUE,
        su  |-> [su EXCEPT !.solution[row * DIM + col] = EMPTY]]

\* Faulty variant of cell_fill: the column is not checked.
cell_fill_nocol(su, row, col, num) ==
  IF su.puzzle[row * DIM + col] # EMPTY
  THEN [ret |-> FALSE, su |-> su]
  ELSE IF \/ Truthy(violate_row(su, row, num))
          \/ Truthy(violate_box(su, row, col, num))
       THEN [ret |-> FALSE, su |-> su]
       ELSE [ret |-> TRUE,
             su  |-> [su EXCEPT !.solution[row * DIM + col] = num]]

cell_fill(su, row, col, num) ==
  IF su.puzzle[row * DIM + col] # EMPTY
  THEN [ret |-> FALSE, su |-> su]
  ELSE IF violates_any(su, row, col, num)
       THEN [ret |-> FALSE, su |-> su]
       ELSE [ret |-> TRUE,
             su  |-> [su EXCEPT !.solution[row * DIM + col] = num]]

puzzle_solved(su) ==
  \A i \in 0 .. DIM - 1 : \A j \in 0 .. DIM - 1 :
     su.solution[i * DIM + j] # EMPTY

\* The loop of cell_choices over i = 1 .. 9; choice counts what was written.
RECURSIVE choices_loop(_, _, _, _, _, _)
choices_loop(su, row, col, i, choice, choices) ==
  IF i > 9
  THEN [ret |-> choice, choices |-> choices]
  ELSE IF violates_any(su, row, col, i)
       THEN choices_loop(su, row, col, i + 1, choice, choices)
       ELSE choices_loop(su, row, col, i + 1, choice + 1,
                         [choices EXCEPT ![choice] = i])

cell_choices(su, row, col, choices) ==
  IF su.puzzle[row * DIM + col] # EMPTY
  THEN [ret |-> 0, choices |-> choices]
  ELSE choices_loop(su, row, col, 1, 0, choices)

\* Faulty variant of hint_cols: a cell with one choice or more is taken.
RECURSIVE hint_cols_atleast(_, _, _)
hint_cols_atleast(su, i, j) ==
  IF j >= DIM
  THEN [found |-> FALSE, col |-> 0]
  ELSE IF /\ su.solution[i * DIM + j] = EMPTY
          /\ cell_choices(su, i, j, FreshChoices).ret >= 1
       THEN [found |-> TRUE, col |-> j]
       ELSE hint_cols_atleast(su, i, j + 1)

\* The inner loop of cell_hint, over j from col j on in row i: the first
\* empty cell of the row with exactly one choice, if there is one.
RECURSIVE hint_cols(_, _, _)
hint_cols(su, i, j) ==
  IF j >= DIM
  THEN [found |-> FALSE, col |-> 0]
  ELSE IF /\ su.solution[i * DIM + j] = EMPTY
          /\ cell_choices(su, i, j, FreshChoices).ret = 1
       THEN [found |-> TRUE, col |-> j]
       ELSE hint_cols(su, i, j + 1)

\* The outer loop of cell_hint, over i from row i on.
RECURSIVE hint_rows(_, _, _, _)
hint_rows(su, i, row, col) ==
  IF i >= DIM
  THEN [ret |-> FALSE, row |-> row, col |-> col]
  ELSE LET inner == hint_cols(su, i, 0)
       IN IF inner.found
          THEN [ret |-> TRUE, row |-> i, col |-> inner.col]
          ELSE hint_rows(su, i + 1, row, col)

cell_hint(su, row, col) == hint_rows(su, 0, row, col)

\* Faulty variant of least_pass: the test num_choices > 0 is missing.
least_pass_withzero(su, choices) ==
  LET counted == {cell_choices(su, c \div DIM, c % DIM, choices).ret :
                     c \in {e \in Cells : su.solution[e] = EMPTY}}
      lowering == {num_choices \in counted : num_choices < DIM + 1}
  IN IF lowering = {} THEN DIM + 1
     ELSE CHOOSE least \in lowering : \A n \in lowering : least <= n

\* First pass of least_possible_solutions: least starts at DIM + 1 and is
\* lowered to num_choices at every empty cell where 0 < num_choices < least,
\* which leaves it at the least positive number of choices of an empty
\* cell, or at DIM + 1 when no empty cell has a choice.
least_pass(su, choices) ==
  LET counted == {cell_choices(su, c \div DIM, c % DIM, choices).ret :
                     c \in {e \in Cells : su.solution[e] = EMPTY}}
      lowering == {num_choices \in counted :
                     num_choices > 0 /\ num_choices < DIM + 1}
  IN IF lowering = {} THEN DIM + 1
     ELSE CHOOSE least \in lowering : \A n \in lowering : least <= n

\* Faulty variant of find_cols: the first empty cell with least choices or more.
RECURSIVE find_cols_atleast(_, _, _, _, _)
find_cols_atleast(su, i, j, least, choices) ==
  IF j >= DIM
  THEN [found |-> FALSE, ret |-> 0, col |-> 0, choices |-> choices]
  ELSE IF su.solution[i * DIM + j] = EMPTY
       THEN LET cc == cell_choices(su, i, j, choices)
            IN IF cc.ret >= least
               THEN [found |-> TRUE, ret |-> cc.ret, col |-> j,
                     choices |-> cc.choices]
               ELSE find_cols_atleast(su, i, j + 1, least, choices)
       ELSE find_cols_atleast(su, i, j + 1, least, choices)

\* Second pass, inner loop over j from col j on in row i: the first empty
\* cell of the row whose number of choices equals least, if there is one.
\* Of the choices array the model keeps what the last cell_choices call
\* wrote, choices[0 .. ret - 1]; the elements behind them hold what earlier
\* calls left there and are read by no caller.
RECURSIVE find_cols(_, _, _, _, _)
find_cols(su, i, j, least, choices) ==
  IF j >= DIM
  THEN [found |-> FALSE, ret |-> 0, col |-> 0, choices |-> choices]
  ELSE IF su.solution[i * DIM + j] = EMPTY
       THEN LET cc == cell_choices(su, i, j, choices)
            IN IF cc.ret = least
               THEN [found |-> TRUE, ret |-> cc.ret, col |-> j,
                     choices |-> cc.choices]
               ELSE find_cols(su, i, j + 1, least, choices)
       ELSE find_cols(su, i, j + 1, least, choices)

\* Second pass, outer loop over i from row i on.
RECURSIVE find_rows(_, _, _, _, _, _)
find_rows(su, i, least, row, col, choices) ==
  IF i >= DIM
  THEN [ret |-> 0, row |-> row, col |-> col, choices |-> choices]
  ELSE LET inner == find_cols(su, i, 0, least, choices)
       IN IF inner.found
          THEN [ret |-> inner.ret, row |-> i, col |-> inner.col,
                choices |-> inner.choices]
          ELSE find_rows(su, i + 1, least, row, col, choices)

\* The first pass, then the second with its result (the set has one
\* element: least is bound to the value the first pass computed).
least_possible_solutions(su, row, col, choices) ==
  CHOOSE found \in {find_rows(su, 0, least, row, col, choices) :
                      least \in {least_pass(su, choices)}} : TRUE

\* ------------------------------------------------------------------------
\* Construction: sudoku_read and the inputs it is given
\* ------------------------------------------------------------------------
\* sudoku_read: 81 characters (as character codes), '_' (95) for an empty
\* cell, otherwise c - '0' (48).
sudoku_read(text) ==
  LET cells == [cnt \in Cells |-> IF text[cnt + 1] = 95 THEN 0
                                  ELSE text[cnt + 1] - 48]
  IN [puzzle |-> cells, solution |-> cells]

\* What a client types for a grid: PRINT[d] for every cell.
AsText(grid) ==
  [n \in 1 .. DIM * DIM |-> IF grid[n - 1] = 0 THEN 95 ELSE 48 + grid[n - 1]]

\* A completed grid, the source of the near-complete input puzzles.
FullGrid ==
  << 1,2,3, 4,5,6, 7,8,9,
     4,5,6, 7,8,9, 1,2,3,
     7,8,9, 1,2,3, 4,5,6,
     2,3,1, 6,7,4, 8,9,5,
     8,7,5, 9,1,2, 3,6,4,
     6,9,4, 5,3,8, 2,1,7,
     3,1,7, 2,6,5, 9,4,8,
     5,4,2, 8,9,7, 6,3,1,
     9,6,8, 3,4,1, 5,7,2 >>

\* A family of inputs: FullGrid with the first k cells of blanks emptied
\* and, when at is a cell, that clue replaced by digit.
\*   - PlainScenario: a puzzle with one completion; the player's wrong
\*     digits make boards that have none.
\*   - DeadEndScenario: clue (1,0) reads 1, so that with (0,0), (1,6) and
\*     (2,6) empty the clues are consistent, (0,0) has no legal digit and
\*     the other empty cells have one.
\*   - ClashScenario: clue (8,8) reads 7, a second 7 in row 8.
PlainScenario ==
  [blanks |-> <<0, 28, 1, 27, 40, 80>>, at |-> -1, digit |-> 0]
DeadEndScenario ==
  [blanks |-> <<0, 15, 24, 28, 40, 80>>, at |-> 9, digit |-> 1]
ClashScenario ==
  [blanks |-> <<40, 0, 28, 1, 27, 44>>, at |-> 80, digit |-> 7]

Scenarios == {PlainScenario, DeadEndScenario, ClashScenario}

ScenarioGrid(sc, k) ==
  [c \in Cells |->
     IF \E n \in 1 .. k : sc.blanks[n] = c THEN 0
     ELSE IF c = sc.at THEN sc.digit
     ELSE FullGrid[c + 1]]

\* Two sparse inputs: no clue at all, and a 9-blank puzzle on which the
\* solver's first digit for the first chosen cell fails several levels down.
EmptyGrid == [c \in Cells |-> 0]
BacktrackGrid ==
  [c \in Cells |->
     IF c \in {36, 42, 43, 45, 46, 69, 70, 72, 73} THEN 0
     ELSE FullGrid[c + 1]]

InputGrids ==
  {ScenarioGrid(sc, k) : sc \in Scenarios, k \in 0 .. MaxBlanks}
    \cup {EmptyGrid, BacktrackGrid}

NumEmpty(grid) == Cardinality({c \in Cells : grid[c] = EMPTY})

\* The cells the player aims cell_fill and cell_erase at: the cells some
\* scenario empties; each of them is a clue in some of the puzzles.
PlayCells ==
  {<<sc.blanks[n] \div DIM, sc.blanks[n] % DIM>> :
      sc \in Scenarios, n \in 1 .. MaxBlanks}

\* The player's moves are explored on the puzzles within the bound.
Playable == NumEmpty(puzzle) <= MaxBlanks

NoCall(name) == [name |-> name, row |-> 0, col |-> 0, num |-> 0]
NoOut == [ret |-> FALSE, row |-> 0, col |-> 0]

Init ==
  /\ \E grid \in InputGrids :
        LET su == sudoku_read(AsText(grid))
        IN /\ puzzle = su.puzzle
           /\ solution = su.solution
  /\ stack = << >>
  /\ op = NoCall("read")
  /\ out = NoOut
  /\ pre = Su

\* ------------------------------------------------------------------------
\* The interface calls of a client, one at a time
\* ------------------------------------------------------------------------
Idle == stack = << >>

Reset ==
  /\ Idle
  /\ solution' = solution_reset(Su).solution
  /\ op' = NoCall("reset")
  /\ out' = NoOut
  /\ pre' = Su
  /\ UNCHANGED <<puzzle, stack>>

Erase ==
  /\ Idle /\ Playable
  /\ \E cell \in PlayCells :
        LET r == cell_erase(Su, cell[1], cell[2])
        IN /\ solution' = r.su.solution
           /\ puzzle' = r.su.puzzle
           /\ op' = [name |-> "erase", row |-> cell[1], col |-> cell[2],
                     num |-> 0]
           /\ out' = [NoOut EXCEPT !.ret = r.ret]
  /\ pre' = Su
  /\ UNCHANGED stack

Fill ==
  /\ Idle /\ Playable
  /\ \E cell \in PlayCells, num \in Digits :
        LET r == cell_fill(Su, cell[1], cell[2], num)
        IN /\ solution' = r.su.solution
           /\ puzzle' = r.su.puzzle
           /\ op' = [name |-> "fill", row |-> cell[1], col |-> cell[2],
                     num |-> num]
           /\ out' = [NoOut EXCEPT !.ret = r.ret]
  /\ pre' = Su
  /\ UNCHANGED stack

\* cell_hint(su, &row, &col) with row and col holding r0 before the call.
Hint ==
  /\ Idle
  /\ \E r0 \in {0, DIM - 1} :
        LET h == cell_hint(Su, r0, r0)
        IN /\ op' = [name |-> "hint", row |-> r0, col |-> r0, num |-> 0]
           /\ out' = [ret |-> h.ret, row |-> h.row, col |-> h.col]
  /\ pre' = Su
  /\ UNCHANGED <<puzzle, solution, stack>>

\* ------------------------------------------------------------------------
\* sudoku_solve, one activation record per call
\* ------------------------------------------------------------------------
\* A call that has not yet run its first statement.
EntryFrame ==
  [pc |-> "entry", row |-> 0, col |-> 0, choices |-> FreshChoices,
   least_num |-> 0, i |-> 0]

Top == stack[Len(stack)]
Pop == SubSeq(stack, 1, Len(stack) - 1)
SetTop(frame) == [stack EXCEPT ![Len(stack)] = frame]

\* return v: the record is dropped and v is what the caller reads.
Return(v) ==
  /\ stack' = Pop
  /\ out' = [out EXCEPT !.ret = v]

\* The client calls sudoku_solve(su).
SolveCall ==
  /\ Idle
  /\ stack' = <<EntryFrame>>
  /\ op' = NoCall("solve")
  /\ out' = NoOut
  /\ pre' = Su
  /\ UNCHANGED <<puzzle, solution>>

\* Lines 360-376: puzzle_solved, then least_possible_solutions.
SolveEnter ==
  /\ stack # << >> /\ Top.pc = "entry"
  /\ IF puzzle_solved(Su)
     THEN Return(TRUE)
     ELSE \E l \in {least_possible_solutions(Su, 0, 0, FreshChoices)} :
             IF l.ret = 0
             THEN Return(FALSE)
             ELSE /\ stack' = SetTop([pc |-> "loop", row |-> l.row,
                                      col |-> l.col, choices |-> l.choices,
                                      least_num |-> l.ret, i |-> 0])
                  /\ out' = out
  /\ UNCHANGED <<puzzle, solution, op, pre>>

\* Lines 378-388: one iteration of the loop up to the recursive call.
SolveTry ==
  /\ stack # << >> /\ Top.pc = "loop" /\ Top.i < Top.least_num
  /\ LET curr_sol == Top.choices[Top.i]
         f == cell_fill(Su, Top.row, Top.col, curr_sol)
     IN IF ~f.ret
        THEN /\ stack' = SetTop([Top EXCEPT !.i = Top.i + 1])
             /\ UNCHANGED <<puzzle, solution>>
        ELSE /\ stack' = Append(SetTop([Top EXCEPT !.pc = "wait"]),
                                EntryFrame)
             /\ solution' = f.su.solution
             /\ puzzle' = f.su.puzzle
  /\ UNCHANGED <<op, out, pre>>

\* Faulty variant of SolveResume: a failed recursive call ends the search of this
\* call (return sudoku_solve(su) inside the loop).
SolveResumeGiveUp ==
  /\ stack # << >> /\ Top.pc = "wait"
  /\ Return(out.ret)
  /\ UNCHANGED <<puzzle, solution, op, pre>>

\* Faulty variant of SolveResume: after a failed recursive call the loop starts
\* over (i = 0 for ++i).
SolveResumeRestart ==
  /\ stack # << >> /\ Top.pc = "wait"
  /\ IF out.ret
     THEN Return(TRUE)
     ELSE /\ stack' = SetTop([Top EXCEPT !.pc = "loop", !.i = 0])
          /\ out' = out
  /\ UNCHANGED <<puzzle, solution, op, pre>>

\* Lines 388-391: the recursive call has returned.
SolveResume ==
  /\ stack # << >> /\ Top.pc = "wait"
  /\ IF out.ret
     THEN Return(TRUE)
     ELSE /\ stack' = SetTop([Top EXCEPT !.pc = "loop", !.i = Top.i + 1])
          /\ out' = out
  /\ UNCHANGED <<puzzle, solution, op, pre>>

\* Faulty variant of SolveUndo: the cell is not erased before the return.
SolveUndoNoErase ==
  /\ stack # << >> /\ Top.pc = "loop" /\ Top.i >= Top.least_num
  /\ Return(FALSE)
  /\ UNCHANGED <<puzzle, solution, op, pre>>

\* Lines 393-395: every choice has been tried.
SolveUndo ==
  /\ stack # << >> /\ Top.pc = "loop" /\ Top.i >= Top.least_num
  /\ LET e == cell_erase(Su, Top.row, Top.col)
     IN /\ solution' = e.su.solution
        /\ puzzle' = e.su.puzzle
  /\ Return(FALSE)
  /\ UNCHANGED <<op, pre>>

SolveStep == SolveEnter \/ SolveTry \/ SolveResume \/ SolveUndo

Next ==
  \/ Reset
  \/ Erase
  \/ Fill
  \/ Hint
  \/ SolveCall
  \/ SolveEnter
  \/ SolveTry
  \/ SolveResume
  \/ SolveUndo

Spec == Init /\ [][Next]_vars

\* A call that has started runs to its return: the program is one thread.
FairSpec == Spec /\ WF_vars(SolveStep)

\* ------------------------------------------------------------------------
\* Vocabulary of the properties, stated on grids and not through the
\* functions above
\* ------------------------------------------------------------------------
RowOf(c) == c \div DIM
ColOf(c) == c % DIM
BoxOf(c) == (RowOf(c) \div DIMBOX) * DIMBOX + ColOf(c) \div DIMBOX

\* The cells that share the row, the column or the box of cell c, c included.
UnitCells ==
  [c \in Cells |->
     {p \in Cells : \/ RowOf(p) = RowOf(c)
                    \/ ColOf(p) = ColOf(c)
                    \/ BoxOf(p) = BoxOf(c)}]

PeerCells == [c \in Cells |-> UnitCells[c] \ {c}]

\* No digit of grid stands twice in a row, a column or a box.
NoDuplicates(grid) ==
  \A c \in Cells :
     grid[c] # EMPTY => \A p \in PeerCells[c] : grid[p] # grid[c]

\* Every row, column and box of grid holds each digit 1..9 exactly once.
ValidFull(grid) ==
  /\ \A c \in Cells : grid[c] \in Digits
  /\ NoDuplicates(grid)

\* The digits that stand nowhere in the row, column and box of cell c.
Candidates(grid, c) == Digits \ {grid[p] : p \in UnitCells[c]}

EmptyCells(grid) == {c \in Cells : grid[c] = EMPTY}

Min(S) == CHOOSE x \in S : \A y \in S : x <= y

\* grid agrees with base wherever base holds a digit.
Extends(grid, base) == \A c \in Cells : base[c] # EMPTY => grid[c] = base[c]

\* grid can be extended to a valid full grid by digits in its empty cells.
RECURSIVE Completable(_)
Completable(grid) ==
  IF EmptyCells(grid) = {}
  THEN ValidFull(grid)
  ELSE LET c == Min(EmptyCells(grid))
       IN \E d \in Candidates(grid, c) :
             Completable([grid EXCEPT ![c] = d])

\* The cell the last cell_fill or cell_erase call was aimed at.
Target == op.row * DIM + op.col
Returned(name) == Idle /\ op.name = name

\* ------------------------------------------------------------------------
\* C1 - Clue immutability: in every state, also inside sudoku_solve, every
\* clue cell of puzzle holds its clue in solution; and a cell_fill or
\* cell_erase call aimed at a clue cell returns false and leaves every cell
\* of solution as it was.
\* ------------------------------------------------------------------------
ClueImmutability ==
  /\ \A c \in Cells : puzzle[c] # EMPTY => solution[c] = puzzle[c]
  /\ (op.name \in {"fill", "erase"} /\ pre.puzzle[Target] # EMPTY)
        => (out.ret = FALSE /\ solution = pre.solution)

\* A cell_erase aimed at a clue after the player has filled some cell.
ClueErasedWitness ==
  /\ op.name = "erase"
  /\ puzzle[Target] # EMPTY
  /\ solution # puzzle

\* ------------------------------------------------------------------------
\* C2 - Constraint soundness: when the clues hold no duplicate, no state
\* (also inside sudoku_solve) has a digit twice in a row, column or box of
\* solution, and a successful cell_fill wrote a digit that stood nowhere in
\* the row, column and box of its cell before the call.
\* ------------------------------------------------------------------------
ConstraintSoundness ==
  NoDuplicates(puzzle) =>
    /\ NoDuplicates(solution)
    /\ (op.name = "fill" /\ out.ret)
          => /\ \A p \in UnitCells[Target] : pre.solution[p] # op.num
             /\ solution = [pre.solution EXCEPT ![Target] = op.num]

\* A successful cell_fill over a digit the player had put there before.
OverwriteFillWitness ==
  /\ NoDuplicates(puzzle)
  /\ op.name = "fill" /\ out.ret
  /\ pre.solution[Target] # EMPTY

\* ------------------------------------------------------------------------
\* C9 - cell_erase on a non-clue cell returns true, leaves the cell empty
\* and every other cell and the puzzle as they were, whether or not the
\* cell was empty before; a second cell_erase returns the same and changes
\* nothing more.
\* ------------------------------------------------------------------------
EraseIdempotent ==
  (op.name = "erase" /\ pre.puzzle[Target] = EMPTY) =>
     LET again == cell_erase(Su, op.row, op.col)
     IN /\ out.ret = TRUE
        /\ solution = [pre.solution EXCEPT ![Target] = EMPTY]
        /\ puzzle = pre.puzzle
        /\ again.ret = out.ret
        /\ again.su = Su

\* A cell_erase of a non-clue cell that was empty already, on a board
\* where the player has filled another cell.
EraseEmptyWitness ==
  /\ op.name = "erase"
  /\ puzzle[Target] = EMPTY
  /\ pre.solution[Target] = EMPTY
  /\ solution # puzzle

\* ------------------------------------------------------------------------
\* C3 - Solve soundness, as claimed: whenever sudoku_solve returns true,
\* puzzle_solved is true and every row, column and box of solution holds
\* each digit exactly once.
\* ------------------------------------------------------------------------
SolveSoundness ==
  (Returned("solve") /\ out.ret) =>
     /\ puzzle_solved(Su)
     /\ ValidFull(solution)

\* ------------------------------------------------------------------------
\* C4 - No residue on failure: when sudoku_solve returns false, solution is
\* cell for cell what it was when the call was made, and so is puzzle.
\* ------------------------------------------------------------------------
SolveNoResidue ==
  (Returned("solve") /\ ~out.ret) =>
     /\ solution = pre.solution
     /\ puzzle = pre.puzzle

\* A failed sudoku_solve on a board with an empty cell that had a legal
\* digit: the search filled at least one cell before it gave up.
FailedSearchWitness ==
  /\ Returned("solve") /\ ~out.ret
  /\ \E c \in EmptyCells(pre.solution) : Candidates(pre.solution, c) # {}

\* ------------------------------------------------------------------------
\* C5 - Solve completeness: called on a board without duplicates,
\* sudoku_solve returns true exactly when the board can be completed: a
\* true return leaves a valid full grid that extends the board of the call,
\* a false return happens only when no completion exists; on the board
\* without clues it returns true with a valid full grid.
\* ------------------------------------------------------------------------
SolveCompleteness ==
  (Returned("solve") /\ NoDuplicates(pre.solution)) =>
     /\ out.ret => (ValidFull(solution) /\ Extends(solution, pre.solution))
     /\ ~out.ret => ~Completable(pre.solution)
     /\ EmptyCells(pre.solution) = Cells => out.ret

\* sudoku_solve has returned true on the board without clues.
EmptyBoardSolvedWitness ==
  /\ Returned("solve") /\ out.ret
  /\ EmptyCells(pre.solution) = Cells
  /\ ValidFull(solution)

\* ------------------------------------------------------------------------
\* C6 - Termination: every sudoku_solve call that has started returns; a
\* call nested n levels below the client's call is entered on a board with
\* n empty cells fewer than the client's, so the nesting never goes deeper
\* than the number of empty cells of the board the client passed.
\* ------------------------------------------------------------------------
Depth == Len(stack) - 1

SolveTerminates ==
  /\ (stack # << >>) ~> (stack = << >>)
  /\ [](stack # << >> =>
          /\ Depth <= Cardinality(EmptyCells(pre.solution))
          /\ Top.pc = "entry" =>
                Cardinality(EmptyCells(solution)) =
                   Cardinality(EmptyCells(pre.solution)) - Depth)

\* The innermost call of a solve of the board without clues: 81 levels
\* below the client's call.
DeepestCallWitness ==
  /\ stack # << >>
  /\ EmptyCells(pre.solution) = Cells
  /\ Depth = DIM * DIM

\* ------------------------------------------------------------------------
\* C7 - Hint correctness: cell_hint returns true with the first cell in
\* row-major order that is empty and has exactly one legal digit (and
\* cell_choices counts one for it); it returns false only when no empty
\* cell has exactly one legal digit, and then leaves row and col alone; it
\* never changes the board.
\* ------------------------------------------------------------------------
NakedSingles(grid) ==
  {c \in EmptyCells(grid) : Cardinality(Candidates(grid, c)) = 1}

HintCorrectness ==
  op.name = "hint" =>
     /\ Su = pre
     /\ out.ret =>
           /\ out.row \in Rows /\ out.col \in Cols
           /\ NakedSingles(solution) # {}
           /\ out.row * DIM + out.col = Min(NakedSingles(solution))
           /\ cell_choices(Su, out.row, out.col, FreshChoices).ret = 1
     /\ ~out.ret =>
           /\ NakedSingles(solution) = {}
           /\ out.row = op.row /\ out.col = op.col

\* A hint that passed over an earlier empty cell with more than one digit.
HintSkipsWitness ==
  /\ op.name = "hint" /\ out.ret
  /\ \E c \in EmptyCells(solution) :
        /\ c < out.row * DIM + out.col
        /\ Cardinality(Candidates(solution, c)) > 1

\* ------------------------------------------------------------------------
\* C8 - Dead-end reporting.  A dead-end board: no non-clue cell is filled,
\* one empty cell has no legal digit, and there are other empty cells, all
\* of which have one.
\* ------------------------------------------------------------------------
DeadEnds(grid) == {c \in EmptyCells(grid) : Candidates(grid, c) = {}}

DeadEndBoard(su) ==
  /\ su.solution = su.puzzle
  /\ Cardinality(DeadEnds(su.solution)) = 1
  /\ EmptyCells(su.solution) \ DeadEnds(su.solution) # {}

\* As claimed: on a dead-end board least_possible_solutions returns 0, and
\* sudoku_solve returns false.
DeadEndReported ==
  /\ (Idle /\ DeadEndBoard(Su)) =>
        least_possible_solutions(Su, 0, 0, FreshChoices).ret = 0
  /\ (Returned("solve") /\ DeadEndBoard(pre)) => ~out.ret

\* As the code has it: on a dead-end board least_possible_solutions passes
\* over the cell without a legal digit and returns an empty cell that has
\* the least positive number of legal digits, with that number (not 0);
\* sudoku_solve searches from there and returns false, the board restored.
DeadEndPassedOver ==
  /\ (Idle /\ DeadEndBoard(Su)) =>
        LET l == least_possible_solutions(Su, 0, 0, FreshChoices)
            cell == l.row * DIM + l.col
            alive == EmptyCells(solution) \ DeadEnds(solution)
        IN /\ l.ret >= 1
           /\ cell \in alive
           /\ l.ret = Cardinality(Candidates(solution, cell))
           /\ \A c \in alive : l.ret <= Cardinality(Candidates(solution, c))
  /\ (Returned("solve") /\ DeadEndBoard(pre)) =>
        (~out.ret /\ Su = pre)

\* sudoku_solve has returned from a call on a dead-end board.
DeadEndSolveWitness ==
  /\ Returned("solve")
  /\ DeadEndBoard(pre)

\* ------------------------------------------------------------------------
\* C10 - Most-constrained-cell selection: least_possible_solutions returns
\* the first empty cell in row-major order whose number of legal digits is
\* the least among the empty cells that have a legal digit, with that
\* number and with exactly its legal digits, ascending, in choices; it
\* returns 0 and leaves row and col alone exactly when the board has no
\* empty cell or no empty cell has a legal digit.  Checked for the function
\* on every board a client or a sudoku_solve call can pass it, and for what
\* sudoku_solve holds right after its call (the board is as it was then).
\* ------------------------------------------------------------------------
Selected(grid, l, row0, col0) ==
  LET alive == {c \in EmptyCells(grid) : Candidates(grid, c) # {}}
      count == [c \in alive |-> Cardinality(Candidates(grid, c))]
  IN IF alive = {}
     THEN l.ret = 0 /\ l.row = row0 /\ l.col = col0
     ELSE LET least == Min({count[c] : c \in alive})
              cell == Min({c \in alive : count[c] = least})
          IN /\ l.ret = least
             /\ l.row * DIM + l.col = cell
             /\ {l.choices[k] : k \in 0 .. l.ret - 1} = Candidates(grid, cell)
             /\ \A k \in 1 .. l.ret - 1 : l.choices[k - 1] < l.choices[k]

MostConstrainedSelection ==
  /\ (Idle \/ Top.pc = "entry") =>
        Selected(solution,
                 least_possible_solutions(Su, DIM - 1, DIM - 1, FreshChoices),
                 DIM - 1, DIM - 1)
  /\ (stack # << >> /\ Top.pc = "loop" /\ Top.i = 0) =>
        Selected(solution,
                 [ret |-> Top.least_num, row |-> Top.row, col |-> Top.col,
                  choices |-> Top.choices], 0, 0)

\* sudoku_solve holds a cell that is not the first empty cell of the board:
\* an earlier empty cell has more legal digits.
LaterCellSelectedWitness ==
  /\ stack # << >> /\ Top.pc = "loop" /\ Top.i = 0
  /\ \E c \in EmptyCells(solution) :
        /\ c < Top.row * DIM + Top.col
        /\ Cardinality(Candidates(solution, c)) > Top.least_num

====
